---- MODULE Spec2Model ----
(***************************************************************************)
(* Model of src/bongo_chat.py: the BongoChatAI client.  One client object  *)
(* (model, base_url, headers), its two public operations validate_prompt   *)
(* and generate_response, and the transport (self.scraper.get followed by  *)
(* response.json()) whose reply is drawn from a bounded set of outcomes.   *)
(* Text is a sequence of chunks; a prompt is a sequence of one-character   *)
(* chunks so that str.strip() is computed and not assumed.                 *)
(***************************************************************************)
EXTENDS Integers, Sequences, FiniteSets, TLC

(* ---------------------------- bounds ---------------------------------- *)
MaxLen == 3

(* ------------------------- Python values ------------------------------ *)
PyVal(t, n, s) == [t |-> t, n |-> n, s |-> s]
PyNone == PyVal("NoneType", 0, <<>>)
PyInt(n) == PyVal("int", n, <<>>)
PyStr(s) == PyVal("str", 0, s)
PyList(s) == PyVal("list", 0, s)
PyBytes(s) == PyVal("bytes", 0, s)
\* marker of a key that the JSON object does not have
Absent == PyVal("absent", 0, <<>>)

Whitespace == {" ", "\t"}
Chars == Whitespace \cup {"a"}

RECURSIVE SeqsUpTo(_, _)
SeqsUpTo(S, n) ==
    IF n = 0 THEN {<<>>}
    ELSE LET shorter == SeqsUpTo(S, n - 1)
         IN  shorter \cup {Append(s, c) : s \in {x \in shorter : Len(x) = n - 1}, c \in S}

Texts == SeqsUpTo(Chars, MaxLen)
NonTexts == {PyNone, PyInt(0), PyInt(5), PyList(<<>>), PyList(<<"a">>), PyBytes(<<"a">>)}
Prompts == {PyStr(s) : s \in Texts} \cup NonTexts

\* bool(x)
Truthy(x) ==
    CASE x.t = "NoneType" -> FALSE
      [] x.t = "int" -> x.n # 0
      [] OTHER -> Len(x.s) > 0

\* isinstance(x, str)
IsStr(x) == x.t = "str"

\* a == b for the values above
PyEq(a, b) == a.t = b.t /\ a.n = b.n /\ a.s = b.s

RECURSIVE lstrip(_)
lstrip(s) == IF s # <<>> /\ Head(s) \in Whitespace THEN lstrip(Tail(s)) ELSE s

RECURSIVE rstrip(_)
rstrip(s) ==
    IF s # <<>> /\ s[Len(s)] \in Whitespace THEN rstrip(SubSeq(s, 1, Len(s) - 1)) ELSE s

\* str.strip()
strip(s) == rstrip(lstrip(s))

(* ------------------------- exceptions --------------------------------- *)
Parent ==
    [c \in {"AIServiceError", "CloudflareException", "RequestException",
            "ValueError", "LookupError", "TypeError"} |-> "Exception"]
    @@ ("InvalidPromptError" :> "AIServiceError")
    @@ ("ServiceConnectionError" :> "AIServiceError")
    @@ ("CloudflareChallengeError" :> "CloudflareException")
    @@ ("CloudflareCaptchaError" :> "CloudflareException")
    @@ ("ConnectionError" :> "RequestException")
    @@ ("JSONDecodeError" :> "ValueError")
    @@ ("KeyError" :> "LookupError")

RECURSIVE IsSubclass(_, _)
IsSubclass(c, d) ==
    \/ c = d
    \/ c \in DOMAIN Parent /\ IsSubclass(Parent[c], d)

\* outcome of a call or of a block of code
NoResponse == [content |-> PyNone, status_code |-> PyNone, error |-> PyNone]
Pending == [kind |-> "none", value |-> NoResponse, cls |-> "", msg |-> <<>>]
Raise(cls, msg) == [kind |-> "raise", value |-> NoResponse, cls |-> cls, msg |-> msg]
ReturnNone == [kind |-> "return_none", value |-> NoResponse, cls |-> "", msg |-> <<>>]
Return(v) == [kind |-> "return", value |-> v, cls |-> "", msg |-> <<>>]

HTTPStatus_OK == PyInt(200)

AIResponse(content, status_code, error) ==
    [content |-> content, status_code |-> status_code, error |-> error]

(* ------------------------ the transport ------------------------------- *)
\* a parsed JSON document: an object with optional keys, or something else
Doc(t, status, response, type) ==
    [t |-> t, status |-> status, response |-> response, type |-> type]
NoDoc == Doc("none", Absent, Absent, Absent)

StatusValues == {Absent, PyInt(200), PyInt(429), PyStr(<<"200">>), PyNone}
ResponseValues == {Absent, PyStr(<<"hi">>), PyStr(<<>>), PyNone}
TypeValues == {Absent, PyStr(<<"rate_limited">>), PyNone}

Objects ==
    {Doc("object", st, r, ty) : st \in StatusValues, r \in ResponseValues, ty \in TypeValues}
Docs == Objects \cup {Doc("array", Absent, Absent, Absent), Doc("null", Absent, Absent, Absent)}

\* what self.scraper.get(...) does: raise, or return a response whose body
\* response.json() can parse or not
TransportReply(kind, cls, msg, parses, body) ==
    [kind |-> kind, cls |-> cls, msg |-> msg, parses |-> parses, body |-> body]
NoReply == TransportReply("none", "", <<>>, FALSE, NoDoc)

TransportFailures ==
    {TransportReply("raise", "CloudflareChallengeError",
                    <<"Detected a Cloudflare version 2 challenge">>, FALSE, NoDoc),
     TransportReply("raise", "CloudflareCaptchaError",
                    <<"Cloudflare Captcha detected">>, FALSE, NoDoc),
     TransportReply("raise", "ConnectionError",
                    <<"Connection refused">>, FALSE, NoDoc)}

HttpResponses ==
    {TransportReply("response", "", <<>>, TRUE, d) : d \in Docs}
    \cup {TransportReply("response", "", <<>>, FALSE, NoDoc)}

\* response.json()
json(response) ==
    IF response.parses
    THEN [exc |-> Pending, v |-> response.body]
    ELSE [exc |-> Raise("JSONDecodeError", <<"Expecting value: line 1 column 1 (char 0)">>),
          v |-> NoDoc]

\* response_data[key]
GetItem(data, key) ==
    CASE data.t = "object" ->
            IF data[key] = Absent
            THEN [exc |-> Raise("KeyError", <<"'", key, "'">>), v |-> PyNone]
            ELSE [exc |-> Pending, v |-> data[key]]
      [] data.t = "array" ->
            [exc |-> Raise("TypeError", <<"list indices must be integers or slices, not str">>),
             v |-> PyNone]
      [] OTHER ->
            [exc |-> Raise("TypeError", <<"'NoneType' object is not subscriptable">>),
             v |-> PyNone]

(* ------------------------- BongoChatAI -------------------------------- *)
Models == {"gpt-4o-mini", "gpt-4o"}
BaseUrl == "https://darkness.ashlynn.workers.dev/chat/"
Headers ==
    ("accept" :> "*/*")
    @@ ("accept-language" :> "en-US,en;q=0.6")
    @@ ("origin" :> "https://bongonetworkteambd.github.io")
    @@ ("priority" :> "u=1, i")
    @@ ("referer" :> "https://bongonetworkteambd.github.io/")
    @@ ("sec-ch-ua" :> "Brave;v=131, Chromium;v=131, Not_A Brand;v=24")
    @@ ("sec-ch-ua-mobile" :> "?0")
    @@ ("sec-ch-ua-platform" :> "Windows")
    @@ ("sec-fetch-dest" :> "empty")
    @@ ("sec-fetch-mode" :> "cors")
    @@ ("sec-fetch-site" :> "cross-site")
    @@ ("sec-gpc" :> "1")
    @@ ("user-agent" :> "Mozilla/5.0 (Windows NT 10.0; Win64; x64) AppleWebKit/537.36 (KHTML, like Gecko) Chrome/131.0.0.0 Safari/537.36")

Request(sent, url, params, hdrs) ==
    [sent |-> sent, url |-> url, params |-> params, headers |-> hdrs]
NoRequest == Request(FALSE, "", [prompt |-> PyNone, model |-> ""], [h \in {} |-> ""])

VARIABLES
    model,           \* self.model
    base_url,        \* self.base_url
    headers,         \* self.headers
    pc,              \* "idle", "in-flight" (inside self.scraper.get) or "resolved"
    op,              \* the operation of the current call
    prompt,          \* its argument
    request,         \* the request handed to the transport during the call
    transportCalls,  \* number of self.scraper.get invocations during the call
    reply,           \* what the transport did with the request
    result           \* what the call returned or raised

config == <<model, base_url, headers>>
vars == <<model, base_url, headers, pc, op, prompt, request, transportCalls, reply, result>>

\* validate_prompt without the whitespace-only check
validate_prompt_NoStrip(p) ==
    IF ~Truthy(p) \/ ~IsStr(p)
    THEN Raise("InvalidPromptError", <<"Prompt cannot be empty and must be a string">>)
    ELSE ReturnNone

\* BongoChatAI.validate_prompt
validate_prompt(p) ==
    IF ~Truthy(p) \/ ~IsStr(p)
    THEN Raise("InvalidPromptError", <<"Prompt cannot be empty and must be a string">>)
    ELSE IF Len(strip(p.s)) = 0
         THEN Raise("InvalidPromptError", <<"Prompt cannot be whitespace only">>)
         ELSE ReturnNone

\* the OK branch takes the text from 'type' instead of 'response'
InterpretBody_OkReadsType(data) ==
    LET status == GetItem(data, "status") IN
    IF status.exc.kind = "raise" THEN status.exc
    ELSE IF PyEq(status.v, HTTPStatus_OK)
         THEN LET response == GetItem(data, "type") IN
              IF response.exc.kind = "raise" THEN response.exc
              ELSE Return(AIResponse(response.v, HTTPStatus_OK, PyNone))
         ELSE LET type == GetItem(data, "type") IN
              IF type.exc.kind = "raise" THEN type.exc
              ELSE Return(AIResponse(PyStr(<<>>), status.v, type.v))

\* the non-OK branch raises instead of returning a record
InterpretBody_NonOkRaises(data) ==
    LET status == GetItem(data, "status") IN
    IF status.exc.kind = "raise" THEN status.exc
    ELSE IF PyEq(status.v, HTTPStatus_OK)
         THEN LET response == GetItem(data, "response") IN
              IF response.exc.kind = "raise" THEN response.exc
              ELSE Return(AIResponse(response.v, HTTPStatus_OK, PyNone))
         ELSE LET type == GetItem(data, "type") IN
              IF type.exc.kind = "raise" THEN type.exc
              ELSE Raise("AIServiceError", type.v.s)

\* the non-OK branch forgets to pass error=
InterpretBody_NonOkNoError(data) ==
    LET status == GetItem(data, "status") IN
    IF status.exc.kind = "raise" THEN status.exc
    ELSE IF PyEq(status.v, HTTPStatus_OK)
         THEN LET response == GetItem(data, "response") IN
              IF response.exc.kind = "raise" THEN response.exc
              ELSE Return(AIResponse(response.v, HTTPStatus_OK, PyNone))
         ELSE LET type == GetItem(data, "type") IN
              IF type.exc.kind = "raise" THEN type.exc
              ELSE Return(AIResponse(PyStr(<<>>), status.v, PyNone))

\* the branch on response_data['status'] of generate_response
InterpretBody(data) ==
    LET status == GetItem(data, "status") IN
    IF status.exc.kind = "raise" THEN status.exc
    ELSE IF PyEq(status.v, HTTPStatus_OK)
         THEN LET response == GetItem(data, "response") IN
              IF response.exc.kind = "raise" THEN response.exc
              ELSE Return(AIResponse(response.v, HTTPStatus_OK, PyNone))
         ELSE LET type == GetItem(data, "type") IN
              IF type.exc.kind = "raise" THEN type.exc
              ELSE Return(AIResponse(PyStr(<<>>), status.v, type.v))

\* the try body of generate_response from the return of self.scraper.get on
TryBody(r) ==
    IF r.kind = "raise" THEN Raise(r.cls, r.msg)
    ELSE LET response_data == json(r) IN
         IF response_data.exc.kind = "raise" THEN response_data.exc
         ELSE InterpretBody(response_data.v)

\* the except clauses without "except InvalidPromptError"
ExceptClauses_NoInvalidPromptClause(e) ==
    IF IsSubclass(e.cls, "CloudflareChallengeError")
    THEN Raise("ServiceConnectionError", <<"Failed to bypass Cloudflare protection">>)
    ELSE IF IsSubclass(e.cls, "Exception")
         THEN Raise("AIServiceError", <<"Unexpected error: ">> \o e.msg)
         ELSE e

\* the except clauses without "except CloudflareChallengeError"
ExceptClauses_NoChallengeClause(e) ==
    IF IsSubclass(e.cls, "InvalidPromptError") THEN e
    ELSE IF IsSubclass(e.cls, "Exception")
         THEN Raise("AIServiceError", <<"Unexpected error: ">> \o e.msg)
         ELSE e

\* the last clause drops str(e) from its message
ExceptClauses_NoCause(e) ==
    IF IsSubclass(e.cls, "InvalidPromptError") THEN e
    ELSE IF IsSubclass(e.cls, "CloudflareChallengeError")
         THEN Raise("ServiceConnectionError", <<"Failed to bypass Cloudflare protection">>)
         ELSE IF IsSubclass(e.cls, "Exception")
              THEN Raise("AIServiceError", <<"Unexpected error">>)
              ELSE e

\* the last clause catches ValueError only
ExceptClauses_ValueErrorOnly(e) ==
    IF IsSubclass(e.cls, "InvalidPromptError") THEN e
    ELSE IF IsSubclass(e.cls, "CloudflareChallengeError")
         THEN Raise("ServiceConnectionError", <<"Failed to bypass Cloudflare protection">>)
         ELSE IF IsSubclass(e.cls, "ValueError")
              THEN Raise("AIServiceError", <<"Unexpected error: ">> \o e.msg)
              ELSE e

\* the except clauses of generate_response, tried in order
ExceptClauses(e) ==
    IF IsSubclass(e.cls, "InvalidPromptError") THEN e
    ELSE IF IsSubclass(e.cls, "CloudflareChallengeError")
         THEN Raise("ServiceConnectionError", <<"Failed to bypass Cloudflare protection">>)
         ELSE IF IsSubclass(e.cls, "Exception")
              THEN Raise("AIServiceError", <<"Unexpected error: ">> \o e.msg)
              ELSE e

\* the outcome of the try statement for the outcome of its body
Try(body) == IF body.kind = "raise" THEN ExceptClauses(body) ELSE body

Init ==
    /\ model \in Models
    /\ base_url = BaseUrl
    /\ headers = Headers
    /\ pc = "idle"
    /\ op = "none"
    /\ prompt = PyNone
    /\ request = NoRequest
    /\ transportCalls = 0
    /\ reply = NoReply
    /\ result = Pending

\* a direct call of validate_prompt(p)
ValidatePrompt(p) ==
    /\ pc \in {"idle", "resolved"}
    /\ op' = "validate_prompt"
    /\ prompt' = p
    /\ request' = NoRequest
    /\ transportCalls' = 0
    /\ reply' = NoReply
    /\ result' = validate_prompt(p)
    /\ pc' = "resolved"
    /\ UNCHANGED config

\* generate_response that sends the trimmed prompt
GenerateResponse_SendsStripped(p) ==
    /\ pc \in {"idle", "resolved"}
    /\ op' = "generate_response"
    /\ prompt' = p
    /\ reply' = NoReply
    /\ LET v == validate_prompt(p) IN
       IF v.kind = "raise"
       THEN /\ result' = Try(v)
            /\ request' = NoRequest
            /\ transportCalls' = 0
            /\ pc' = "resolved"
       ELSE /\ result' = Pending
            /\ request' = Request(TRUE, base_url, [prompt |-> PyStr(strip(p.s)), model |-> model], headers)
            /\ transportCalls' = 1
            /\ pc' = "in-flight"
    /\ UNCHANGED config

\* generate_response(p) up to the call of self.scraper.get
GenerateResponse(p) ==
    /\ pc \in {"idle", "resolved"}
    /\ op' = "generate_response"
    /\ prompt' = p
    /\ reply' = NoReply
    /\ LET v == validate_prompt(p) IN
       IF v.kind = "raise"
       THEN /\ result' = Try(v)
            /\ request' = NoRequest
            /\ transportCalls' = 0
            /\ pc' = "resolved"
       ELSE /\ result' = Pending
            /\ request' = Request(TRUE, base_url, [prompt |-> p, model |-> model], headers)
            /\ transportCalls' = 1
            /\ pc' = "in-flight"
    /\ UNCHANGED config

\* self.scraper.get raises e; the except clauses end the call
TransportRaises(e) ==
    /\ pc = "in-flight"
    /\ reply' = e
    /\ result' = Try(TryBody(e))
    /\ pc' = "resolved"
    /\ UNCHANGED <<config, op, prompt, request, transportCalls>>

\* a non-OK reply is sent again once
TransportReturns_Retry(r) ==
    /\ pc = "in-flight"
    /\ reply' = r
    /\ LET out == Try(TryBody(r)) IN
       IF out.kind = "return" /\ ~PyEq(out.value.status_code, HTTPStatus_OK) /\ transportCalls < 2
       THEN /\ result' = Pending
            /\ transportCalls' = transportCalls + 1
            /\ pc' = "in-flight"
       ELSE /\ result' = out
            /\ transportCalls' = transportCalls
            /\ pc' = "resolved"
    /\ UNCHANGED <<config, op, prompt, request>>

\* self.scraper.get returns r; the rest of generate_response runs
TransportReturns(r) ==
    /\ pc = "in-flight"
    /\ reply' = r
    /\ result' = Try(TryBody(r))
    /\ pc' = "resolved"
    /\ UNCHANGED <<config, op, prompt, request, transportCalls>>

Next ==
    \/ \E p \in Prompts : ValidatePrompt(p)
    \/ \E p \in Prompts : GenerateResponse(p)
    \/ \E e \in TransportFailures : TransportRaises(e)
    \/ \E r \in HttpResponses : TransportReturns(r)

Spec == Init /\ [][Next]_vars

(* ----------------------------- claims --------------------------------- *)
\* the text has at least one character that is not whitespace
HasNonWhitespace(s) == \E i \in 1..Len(s) : s[i] \notin Whitespace
\* the prompt is text with at least one non-whitespace character
Acceptable(p) == IsStr(p) /\ HasNonWhitespace(p.s)
\* msg has sub as a contiguous part
Contains(msg, sub) == \E i \in 1..(Len(msg) + 1), j \in 0..Len(msg) : SubSeq(msg, i, j) = sub

Generated == pc = "resolved" /\ op = "generate_response"
GotBody == Generated /\ reply.kind = "response" /\ reply.parses /\ reply.body.t = "object"

\* C1: validate_prompt raises InvalidPromptError for every non-text, empty
\* or whitespace-only input, and returns None for every text with at least
\* one non-whitespace character.
C1_ValidatePrompt ==
    (pc = "resolved" /\ op = "validate_prompt") =>
        IF Acceptable(prompt)
        THEN result = ReturnNone
        ELSE result.kind = "raise" /\ result.cls = "InvalidPromptError"

C1_Witness ==
    /\ pc = "resolved" /\ op = "validate_prompt"
    /\ prompt = PyStr(<<" ", "\t">>)
    /\ result.kind = "raise" /\ result.cls = "InvalidPromptError"

\* C2: for a prompt that validate_prompt rejects, generate_response raises
\* InvalidPromptError itself (same class, same message) and the transport
\* is not invoked during the call.
C2_InvalidPromptPropagates ==
    /\ (Generated /\ ~Acceptable(prompt)) =>
          /\ result.kind = "raise" /\ result.cls = "InvalidPromptError"
          /\ result.msg \in {<<"Prompt cannot be empty and must be a string">>,
                             <<"Prompt cannot be whitespace only">>}
          /\ transportCalls = 0 /\ ~request.sent /\ reply = NoReply
    /\ (pc = "in-flight") => Acceptable(prompt)

C2_Witness ==
    /\ Generated /\ prompt = PyStr(<<" ", " ">>)
    /\ result.cls = "InvalidPromptError" /\ transportCalls = 0

\* C3: valid prompt, body with status equal to 200 and a response field:
\* generate_response returns AIResponse(content = that response,
\* status_code = 200, error = None).
C3_OkReply ==
    (GotBody /\ reply.body.status = PyInt(200) /\ reply.body.response # Absent) =>
        result = Return(AIResponse(reply.body.response, PyInt(200), PyNone))

C3_Witness ==
    /\ GotBody /\ reply.body.status = PyInt(200) /\ reply.body.response = PyStr(<<"hi">>)
    /\ reply.body.type = PyStr(<<"rate_limited">>)
    /\ result.kind = "return" /\ result.value.content = PyStr(<<"hi">>)

\* C4: valid prompt, well-formed body (status and type present) whose
\* status is not 200: generate_response raises nothing and returns
\* AIResponse(content = "", status_code = the status, error = the type).
C4_NonOkReply ==
    (GotBody /\ reply.body.status \notin {Absent, PyInt(200)} /\ reply.body.type # Absent) =>
        result = Return(AIResponse(PyStr(<<>>), reply.body.status, reply.body.type))

C4_Witness ==
    /\ GotBody /\ reply.body.status = PyInt(429) /\ reply.body.type = PyStr(<<"rate_limited">>)
    /\ result.kind = "return" /\ result.value.error = PyStr(<<"rate_limited">>)

\* C5: valid prompt, the transport raises CloudflareChallengeError:
\* generate_response raises ServiceConnectionError, not plain AIServiceError.
C5_ChallengeFailure ==
    (Generated /\ reply.kind = "raise" /\ reply.cls = "CloudflareChallengeError") =>
        result.kind = "raise" /\ result.cls = "ServiceConnectionError"

C5_Witness ==
    /\ Generated /\ reply.kind = "raise" /\ reply.cls = "CloudflareChallengeError"
    /\ result.cls = "ServiceConnectionError"

\* the call failed for a reason other than a challenge failure
OtherFailure ==
    \/ reply.kind = "raise" /\ reply.cls # "CloudflareChallengeError"
    \/ /\ reply.kind = "response"
       /\ \/ ~reply.parses
          \/ reply.body.t # "object"
          \/ reply.body.status = Absent
          \/ reply.body.status = PyInt(200) /\ reply.body.response = Absent
          \/ reply.body.status # PyInt(200) /\ reply.body.type = Absent

\* the message of the failure that the try body raised
CauseMessage ==
    IF reply.kind = "raise" THEN reply.msg
    ELSE IF ~reply.parses THEN <<"Expecting value: line 1 column 1 (char 0)">>
    ELSE IF reply.body.t = "array" THEN <<"list indices must be integers or slices, not str">>
    ELSE IF reply.body.t # "object" THEN <<"'NoneType' object is not subscriptable">>
    ELSE IF reply.body.status = Absent THEN <<"'", "status", "'">>
    ELSE IF reply.body.status = PyInt(200) THEN <<"'", "response", "'">>
    ELSE <<"'", "type", "'">>

C7_RecordInvariant_Original ==
    (Generated /\ result.kind = "return") =>
        IF PyEq(result.value.status_code, HTTPStatus_OK)
        THEN result.value.content # PyNone /\ result.value.error = PyNone
        ELSE result.value.content = PyStr(<<>>) /\ result.value.error # PyNone

\* C7 (amended): every returned AIResponse with status_code = 200 has
\* error = None and content = the body's response value (defined whenever
\* that value is not null); every other one has content = "" and error =
\* the body's type value (set whenever that value is not null).
C7_RecordInvariant ==
    (Generated /\ result.kind = "return") =>
        /\ GotBody
        /\ IF PyEq(result.value.status_code, HTTPStatus_OK)
           THEN /\ result.value.error = PyNone
                /\ reply.body.response # Absent
                /\ result.value.content = reply.body.response
                /\ (reply.body.response # PyNone => result.value.content # PyNone)
           ELSE /\ result.value.content = PyStr(<<>>)
                /\ reply.body.type # Absent
                /\ result.value.error = reply.body.type
                /\ (reply.body.type # PyNone => result.value.error # PyNone)

C7_Witness ==
    /\ Generated /\ result.kind = "return"
    /\ reply.body.status = PyInt(429) /\ reply.body.type = PyNone
    /\ result.value = AIResponse(PyStr(<<>>), PyInt(429), PyNone)

\* C8: a generate_response call ends by returning an AIResponse or by
\* raising InvalidPromptError, ServiceConnectionError or plain
\* AIServiceError; no other exception class reaches the caller.
C8_ClosedOutcomes ==
    Generated =>
        \/ result.kind = "return"
        \/ /\ result.kind = "raise"
           /\ result.cls \in {"InvalidPromptError", "ServiceConnectionError", "AIServiceError"}

C8_Witness ==
    /\ Generated /\ reply.kind = "response" /\ reply.parses /\ reply.body.t = "array"
    /\ result.kind = "raise" /\ result.cls = "AIServiceError"

\* C9: a generate_response call with a valid prompt invokes the transport
\* exactly once whatever the outcome; the step in which the transport
\* returns or fails resolves the call and sends nothing again.
C9_OneTransportCall ==
    /\ [](pc = "in-flight" => transportCalls = 1)
    /\ []((Generated /\ Acceptable(prompt)) => (transportCalls = 1 /\ reply # NoReply))
    /\ [][pc = "in-flight" =>
            (pc' = "resolved" /\ transportCalls' = transportCalls /\ request' = request)]_vars

C9_Witness ==
    /\ Generated /\ Acceptable(prompt)
    /\ reply.kind = "response" /\ reply.body.status = PyInt(429)
    /\ result.kind = "return" /\ transportCalls = 1

\* C10: no call changes model, headers or base_url; every request sent
\* carries params {prompt: the prompt as given, model: self.model} with the
\* construction-time URL and headers; and the outcome of a call is a
\* function of its own prompt and of the transport's reply to it.
C10_ConfigFrame ==
    /\ [][model' = model /\ headers' = headers /\ base_url' = base_url]_vars
    /\ [](base_url = BaseUrl /\ headers = Headers /\ model \in Models)
    /\ [](request.sent =>
            request = Request(TRUE, BaseUrl, [prompt |-> prompt, model |-> model], Headers))
    /\ [](Generated =>
            result = IF Acceptable(prompt)
                     THEN Try(TryBody(reply))
                     ELSE validate_prompt(prompt))

C10_Witness ==
    /\ Generated /\ prompt = PyStr(<<" ", "a", " ">>)
    /\ request.sent /\ request.params = [prompt |-> PyStr(<<" ", "a", " ">>), model |-> "gpt-4o"]
    /\ result.kind = "return"

====
